---- MODULE Spec2Model ----
(***************************************************************************)
(* Model of backend/cleanup_console_logs.py: the text transform            *)
(* remove_console_logs (a regex substitution followed by a line scan that  *)
(* drops console.log statements) and the __main__ driver that reads the    *)
(* target file, transforms its text, writes it back and prints a           *)
(* confirmation.                                                           *)
(*                                                                         *)
(* A text is a sequence of one-character strings.  Every operator below    *)
(* works on characters; only the set of input files is bounded (texts      *)
(* made of at most MaxLines lines taken from LineSet).                     *)
(***************************************************************************)
EXTENDS Integers, Sequences, FiniteSets, TLC

\* Largest number of lines of an input file.
MaxLines == 4

\* ------------------------------------------------------------------------
\* Characters and literals
\* ------------------------------------------------------------------------

NL == "\n"

\* The backtick character (written out, as the character itself cannot stand
\* in a string here).
BACKTICK == "backtick"

\* The characters str.strip() and the regex class \s treat as whitespace.
Whitespace == {" ", "\t", "\n", "\r", "\f"}

IsSpace(c) == c \in Whitespace

\* The literal 'console.log(' of the 'in' test and of both patterns.
CONSOLE_LOG == <<"c", "o", "n", "s", "o", "l", "e", ".", "l", "o", "g", "(">>

\* The literal ');' of both patterns.
CLOSE_STMT == <<")", ";">>

\* The fixed confirmation line.
SUCCESS_MESSAGE == "Console.log statements removed successfully!"

\* ------------------------------------------------------------------------
\* str primitives
\* ------------------------------------------------------------------------

SetMax(S) == CHOOSE x \in S : \A y \in S : y <= x

SetMin(S) == CHOOSE x \in S : \A y \in S : x <= y

\* lit occurs in s starting at position p (1-based).
StartsWithAt(s, p, lit) ==
    /\ p >= 1
    /\ p + Len(lit) - 1 <= Len(s)
    /\ \A k \in 1..Len(lit) : s[p + k - 1] = lit[k]

\* Python: lit in s
Contains(s, lit) == \E p \in 1..Len(s) : StartsWithAt(s, p, lit)

\* Python: s.count(c) for a one-character c
Count(s, c) == Cardinality({p \in 1..Len(s) : s[p] = c})

\* Python: s.strip()
Strip(s) ==
    LET ink == {p \in 1..Len(s) : ~IsSpace(s[p])}
    IN  IF ink = {} THEN <<>> ELSE SubSeq(s, SetMin(ink), SetMax(ink))

\* Variant of Split that behaves as s.splitlines() does: no empty last line
\* after a final line break, and no line at all for the empty text.
RECURSIVE Split_AsSplitlines(_)
Split_AsSplitlines(s) ==
    LET nls == {p \in 1..Len(s) : s[p] = NL}
    IN  IF s = <<>> THEN <<>>
        ELSE IF nls = {} THEN <<s>>
        ELSE LET p == SetMin(nls)
             IN  <<SubSeq(s, 1, p - 1)>>
                     \o Split_AsSplitlines(SubSeq(s, p + 1, Len(s)))

\* Python: s.split('\n')  (always at least one line; '' gives [''])
RECURSIVE Split(_)
Split(s) ==
    LET nls == {p \in 1..Len(s) : s[p] = NL}
    IN  IF nls = {} THEN <<s>>
        ELSE LET p == SetMin(nls)
             IN  <<SubSeq(s, 1, p - 1)>> \o Split(SubSeq(s, p + 1, Len(s)))

\* Python: '\n'.join(lines)
RECURSIVE Join(_)
Join(lines) ==
    IF Len(lines) = 0 THEN <<>>
    ELSE IF Len(lines) = 1 THEN lines[1]
    ELSE lines[1] \o <<NL>> \o Join(Tail(lines))

\* ------------------------------------------------------------------------
\* The regex pass:  re.sub(r'\s*console\.log\([^)]*\);\s*\n', '', content)
\* ------------------------------------------------------------------------

\* A greedy \s* from position p: the first position at or after p that holds
\* no whitespace character (Len(s) + 1 when the text ends first).
RECURSIVE SkipSpace(_, _)
SkipSpace(s, p) ==
    IF p <= Len(s) /\ IsSpace(s[p]) THEN SkipSpace(s, p + 1) ELSE p

\* A greedy [^)]* from position p: the first position at or after p that
\* holds ')' (Len(s) + 1 when the text ends first).
RECURSIVE SkipNotClose(_, _)
SkipNotClose(s, p) ==
    IF p <= Len(s) /\ s[p] # ")" THEN SkipNotClose(s, p + 1) ELSE p

\* Variant of SimpleLogMatchEnd for the pattern without its final \n: the
\* match ends after the whitespace that follows ');', line break or not.
SimpleLogMatchEnd_NoLineBreak(s, p) ==
    LET a == SkipSpace(s, p)
        c == SkipNotClose(s, a + Len(CONSOLE_LOG))
    IN  IF StartsWithAt(s, a, CONSOLE_LOG) /\ StartsWithAt(s, c, CLOSE_STMT)
        THEN SkipSpace(s, c + Len(CLOSE_STMT))
        ELSE 0

\* The position just after the match of the pattern that starts at p, or 0
\* when the pattern does not match at p.
\*   \s*       greedy; giving back whitespace cannot help, because the literal
\*             that follows starts with 'c', so it takes the whole run;
\*   [^)]*     greedy; giving back characters cannot help, because ')' must
\*             follow, so it runs to the first ')';
\*   \s*\n     greedy with backtracking: the match ends after the LAST line
\*             break of the whitespace run that follows ');'.
SimpleLogMatchEnd(s, p) ==
    LET a   == SkipSpace(s, p)
        c   == SkipNotClose(s, a + Len(CONSOLE_LOG))
        d   == c + Len(CLOSE_STMT)
        e   == SkipSpace(s, d)
        nls == {q \in d..(e - 1) : s[q] = NL}
    IN  IF /\ StartsWithAt(s, a, CONSOLE_LOG)
           /\ StartsWithAt(s, c, CLOSE_STMT)
           /\ nls # {}
        THEN SetMax(nls) + 1
        ELSE 0

\* re.sub with the empty replacement: scan left to right, drop each leftmost
\* non-overlapping match, copy every other character.
RECURSIVE SubFrom(_, _)
SubFrom(s, p) ==
    IF p > Len(s) THEN <<>>
    ELSE LET e == SimpleLogMatchEnd(s, p)
         IN  IF e # 0 THEN SubFrom(s, e)
             ELSE <<s[p]>> \o SubFrom(s, p + 1)

RegexPass(content) == SubFrom(content, 1)

\* ------------------------------------------------------------------------
\* The line scan
\* ------------------------------------------------------------------------

\* line.count('(') - line.count(')')
ParenDelta(line) == Count(line, "(") - Count(line, ")")

\* Variant of StartsStatement that tests the unstripped line for the prefix
\* console.log( instead of testing the stripped line for the substring.
StartsStatement_RawPrefix(line) == StartsWithAt(line, 1, CONSOLE_LOG)

\* Variant of StartsStatement that looks for console.log(" only.
StartsStatement_DoubleQuoted(line) ==
    Contains(Strip(line), CONSOLE_LOG \o <<"\"">>)

\* 'console.log(' in line, for line = lines[i].strip()
StartsStatement(line) == Contains(Strip(line), CONSOLE_LOG)

\* re.match(r'\s*console\.log\(<backtick>.*\);\s*$', line) on the stripped
\* line: whitespace, the literal and a backtick, any characters but line breaks,
\* ');', whitespace, then the end of the line ($ also matches just before a
\* final line break).
TemplateLogMatch(line) ==
    LET a == SkipSpace(line, 1)
        b == a + Len(CONSOLE_LOG)
    IN  /\ StartsWithAt(line, a, CONSOLE_LOG)
        /\ StartsWithAt(line, b, <<BACKTICK>>)
        /\ \E j \in (b + 1)..Len(line) :
              /\ \A q \in (b + 1)..(j - 1) : line[q] # NL
              /\ StartsWithAt(line, j, CLOSE_STMT)
              /\ \E e \in (j + 2)..(Len(line) + 1) :
                    /\ \A q \in (j + 2)..(e - 1) : IsSpace(line[q])
                    /\ \/ e = Len(line) + 1
                       \/ e = Len(line) /\ line[e] = NL

IsTemplateLog(line) == TemplateLogMatch(Strip(line))

\* Variant of Continuation whose loop runs while paren_count >= 0.
RECURSIVE Continuation_NonNegative(_, _, _)
Continuation_NonNegative(lines, i, paren_count) ==
    IF paren_count >= 0 /\ i + 1 <= Len(lines)
    THEN Continuation_NonNegative(lines, i + 1,
                                  paren_count + ParenDelta(lines[i + 1]))
    ELSE i

\* Variant of Continuation whose loop stops one line before the last.
RECURSIVE Continuation_StopsEarly(_, _, _)
Continuation_StopsEarly(lines, i, paren_count) ==
    IF paren_count > 0 /\ i + 2 <= Len(lines)
    THEN Continuation_StopsEarly(lines, i + 1,
                                 paren_count + ParenDelta(lines[i + 1]))
    ELSE i

\* The inner while loop: from the statement's first line i with running count
\* paren_count, the index of the last line the statement consumes.
RECURSIVE Continuation(_, _, _)
Continuation(lines, i, paren_count) ==
    IF paren_count > 0 /\ i + 1 <= Len(lines)
    THEN Continuation(lines, i + 1, paren_count + ParenDelta(lines[i + 1]))
    ELSE i

\* Variant of ScanFrom whose loop stops before the last line.
RECURSIVE ScanFrom_StopsBeforeLast(_, _, _)
ScanFrom_StopsBeforeLast(lines, i, cleaned_lines) ==
    IF i > Len(lines) - 1 THEN cleaned_lines
    ELSE IF StartsStatement(lines[i])
         THEN ScanFrom_StopsBeforeLast(lines,
                  Continuation(lines, i, ParenDelta(Strip(lines[i]))) + 1,
                  cleaned_lines)
    ELSE IF IsTemplateLog(lines[i])
         THEN ScanFrom_StopsBeforeLast(lines, i + 1, cleaned_lines)
    ELSE ScanFrom_StopsBeforeLast(lines, i + 1,
                                  Append(cleaned_lines, lines[i]))

\* The outer while loop, from cursor i (1-based) with the lines kept so far.
RECURSIVE ScanFrom(_, _, _)
ScanFrom(lines, i, cleaned_lines) ==
    IF i > Len(lines) THEN cleaned_lines
    ELSE IF StartsStatement(lines[i])
         THEN ScanFrom(lines,
                       Continuation(lines, i, ParenDelta(Strip(lines[i]))) + 1,
                       cleaned_lines)
    ELSE IF IsTemplateLog(lines[i])
         THEN ScanFrom(lines, i + 1, cleaned_lines)
    ELSE ScanFrom(lines, i + 1, Append(cleaned_lines, lines[i]))

LineScan(lines) == ScanFrom(lines, 1, <<>>)

\* remove_console_logs(content)
remove_console_logs(content) == Join(LineScan(Split(RegexPass(content))))

\* ------------------------------------------------------------------------
\* Input files
\* ------------------------------------------------------------------------

\* The lines input files are made of: a block's opening and closing lines, a
\* blank line, and the console.log forms of the examples (a one-line call, the
\* first and last lines of a multi-line call, a backtick-template call, and
\* the call whose string holds a '(').
LineBlockOpen  == <<" ", "i", "f", " ", "(", "x", ")", " ", "{">>
LineBlockClose == <<"}">>
LineBlank      == <<>>
LineLogX       == <<" ", " ">> \o CONSOLE_LOG \o <<"\"", "x", "\"">> \o CLOSE_STMT
LineLogOpen    == CONSOLE_LOG
LineClose      == CLOSE_STMT
LineLogTmpl    == <<" ", " ">> \o CONSOLE_LOG \o <<BACKTICK, "x", BACKTICK>> \o CLOSE_STMT
LineLogParen   == CONSOLE_LOG \o <<"\"", "(", "\"">> \o CLOSE_STMT

LineSet == {LineBlockOpen, LineBlockClose, LineBlank, LineLogX, LineLogOpen,
            LineClose, LineLogTmpl, LineLogParen}

LineSeqs == UNION {[1..n -> LineSet] : n \in 1..MaxLines}

Inputs == {Join(ls) : ls \in LineSeqs}

\* ------------------------------------------------------------------------
\* The driver (__main__)
\* ------------------------------------------------------------------------

VARIABLES
    file,             \* the contents of the file at file_path
    file_at_start,    \* the contents the file had when the run began
    content,          \* the driver's variable content
    lines,            \* remove_console_logs: lines, as the call left it
    cleaned_lines,    \* remove_console_logs: cleaned_lines, as the call left it
    cleaned_content,  \* the driver's variable cleaned_content
    stdout,           \* the lines printed so far
    writes,           \* how many times f.write has been called
    pc                \* the driver's position

vars ==
    <<file, file_at_start, content, lines, cleaned_lines, cleaned_content,
      stdout, writes, pc>>

Init ==
    /\ file \in Inputs
    /\ file_at_start = file
    /\ content = <<>>
    /\ lines = <<>>
    /\ cleaned_lines = <<>>
    /\ cleaned_content = <<>>
    /\ stdout = <<>>
    /\ writes = 0
    /\ pc = "read"

\* Variant of ReadFile that opens the file in a truncating mode.
ReadFile_Truncating ==
    /\ pc = "read"
    /\ file' = <<>>
    /\ content' = <<>>
    /\ pc' = "transform"
    /\ UNCHANGED <<file_at_start, lines, cleaned_lines, cleaned_content,
                   stdout, writes>>

\* with open(file_path, 'r') as f: content = f.read()
ReadFile ==
    /\ pc = "read"
    /\ content' = file
    /\ pc' = "transform"
    /\ UNCHANGED <<file, file_at_start, lines, cleaned_lines, cleaned_content,
                   stdout, writes>>

\* open(file_path, 'r') or f.read() raises: the exception is not caught.
ReadFails ==
    /\ pc = "read"
    /\ pc' = "read_failed"
    /\ UNCHANGED <<file, file_at_start, content, lines, cleaned_lines,
                   cleaned_content, stdout, writes>>

\* cleaned_content = remove_console_logs(content); lines and cleaned_lines
\* record the call's local variables of those names as they are at its return.
Transform ==
    /\ pc = "transform"
    /\ cleaned_content' = remove_console_logs(content)
    /\ lines' = Split(RegexPass(content))
    /\ cleaned_lines' = LineScan(lines')
    /\ pc' = "open_write"
    /\ UNCHANGED <<file, file_at_start, content, stdout, writes>>

\* open(file_path, 'w'): truncates the file.
OpenForWrite ==
    /\ pc = "open_write"
    /\ file' = <<>>
    /\ pc' = "write"
    /\ UNCHANGED <<file_at_start, content, lines, cleaned_lines, cleaned_content,
                   stdout, writes>>

\* open(file_path, 'w') raises before the file is touched.
OpenForWriteFails ==
    /\ pc = "open_write"
    /\ pc' = "write_failed"
    /\ UNCHANGED <<file, file_at_start, content, lines, cleaned_lines,
                   cleaned_content, stdout, writes>>

\* f.write(cleaned_content) and the close at the end of the with block.
WriteFile ==
    /\ pc = "write"
    /\ file' = cleaned_content
    /\ writes' = writes + 1
    /\ pc' = "print"
    /\ UNCHANGED <<file_at_start, content, lines, cleaned_lines, cleaned_content,
                   stdout>>

\* f.write or the closing flush raises: any prefix of the text may have
\* reached the file.
WriteFails ==
    /\ pc = "write"
    /\ \E n \in 0..Len(cleaned_content) : file' = SubSeq(cleaned_content, 1, n)
    /\ writes' = writes + 1
    /\ pc' = "write_failed"
    /\ UNCHANGED <<file_at_start, content, lines, cleaned_lines, cleaned_content,
                   stdout>>

\* print("Console.log statements removed successfully!")
PrintConfirmation ==
    /\ pc = "print"
    /\ stdout' = Append(stdout, SUCCESS_MESSAGE)
    /\ pc' = "done"
    /\ UNCHANGED <<file, file_at_start, content, lines, cleaned_lines,
                   cleaned_content, writes>>

Next ==
    \/ ReadFile
    \/ ReadFails
    \/ Transform
    \/ OpenForWrite
    \/ OpenForWriteFails
    \/ WriteFile
    \/ WriteFails
    \/ PrintConfirmation

Spec == Init /\ [][Next]_vars

\* ------------------------------------------------------------------------
\* Vocabulary of the properties
\* ------------------------------------------------------------------------

\* The state right after cleaned_content = remove_console_logs(content).
AfterTransform == pc = "open_write"

\* The lines of the text that was read.
InputLines == Split(content)

\* The lines the line scan iterates: those of the text the regex pass left.
ScanLines == lines

\* The line holds the substring console.log(
HasLog(line) ==
    \E p \in 1..(Len(line) - Len(CONSOLE_LOG) + 1) :
        SubSeq(line, p, p + Len(CONSOLE_LOG) - 1) = CONSOLE_LOG

\* Number of '(' minus number of ')' in the line.
Parens(line) ==
    Cardinality({p \in DOMAIN line : line[p] = "("})
        - Cardinality({p \in DOMAIN line : line[p] = ")"})

\* The running '(' minus ')' count over lines j..e.
RECURSIVE RunningCount(_, _, _)
RunningCount(ls, j, e) ==
    IF e < j THEN 0 ELSE RunningCount(ls, j, e - 1) + Parens(ls[e])

\* The running count from line j never returns to <= 0.
NeverCloses(ls, j) == \A e \in j..Len(ls) : RunningCount(ls, j, e) > 0

\* Last line of the Statement Span that starts at line j: the first line at
\* which the running count is <= 0, or the last line of the text.
SpanEnd(ls, j) ==
    LET closed == {e \in j..Len(ls) : RunningCount(ls, j, e) <= 0}
    IN  IF closed = {} THEN Len(ls) ELSE SetMin(closed)

\* Where the scan continues after looking at line j as a fresh line.
CursorAfter(ls, j) == IF HasLog(ls[j]) THEN SpanEnd(ls, j) + 1 ELSE j + 1

\* Line i is looked at as a fresh line (it is not a continuation line).
RECURSIVE Fresh(_, _)
Fresh(ls, i) ==
    \/ i = 1
    \/ \E j \in 1..(i - 1) : CursorAfter(ls, j) = i /\ Fresh(ls, j)

\* Line j starts a Statement Span.
SpanStart(ls, j) == HasLog(ls[j]) /\ Fresh(ls, j)

\* Line k starts or continues a Statement Span.
InSpan(ls, k) == \E j \in 1..k : k <= SpanEnd(ls, j) /\ SpanStart(ls, j)

\* The lines from line k on that belong to no Statement Span, in order.
RECURSIVE OutsideFrom(_, _)
OutsideFrom(ls, k) ==
    IF k > Len(ls) THEN <<>>
    ELSE (IF InSpan(ls, k) THEN <<>> ELSE <<ls[k]>>) \o OutsideFrom(ls, k + 1)

LinesOutsideSpans(ls) == OutsideFrom(ls, 1)

\* xs can be obtained from ys by deleting elements.
RECURSIVE IsSubSequence(_, _)
IsSubSequence(xs, ys) ==
    IF xs = <<>> THEN TRUE
    ELSE IF ys = <<>> THEN FALSE
    ELSE IF Head(xs) = Head(ys) THEN IsSubSequence(Tail(xs), Tail(ys))
    ELSE IsSubSequence(xs, Tail(ys))

\* The lines of ls without line k.
WithoutLine(ls, k) == SubSeq(ls, 1, k - 1) \o SubSeq(ls, k + 1, Len(ls))

\* The simple-statement pattern matches somewhere in s: console.log( whose
\* first following ')' is followed by ';', whitespace and a line break.
PatternOccurs(s) ==
    \E p \in 1..(Len(s) - Len(CONSOLE_LOG) + 1) :
        /\ SubSeq(s, p, p + Len(CONSOLE_LOG) - 1) = CONSOLE_LOG
        /\ \E c \in (p + Len(CONSOLE_LOG))..(Len(s) - 2) :
              /\ \A q \in (p + Len(CONSOLE_LOG))..(c - 1) : s[q] # ")"
              /\ s[c] = ")"
              /\ s[c + 1] = ";"
              /\ \E n \in (c + 2)..Len(s) :
                    /\ s[n] = NL
                    /\ \A q \in (c + 2)..(n - 1) : s[q] \in Whitespace

\* The line holds whitespace only.
IsBlankLine(line) == \A p \in DOMAIN line : line[p] \in Whitespace

\* ls without its leading whitespace-only lines, the last line always kept.
RECURSIVE DropLeadingBlank(_)
DropLeadingBlank(ls) ==
    IF Len(ls) > 1 /\ IsBlankLine(ls[1]) THEN DropLeadingBlank(Tail(ls)) ELSE ls

\* The line scan with the backtick-template branch taken out.
RECURSIVE ScanNoTemplateBranch(_, _, _)
ScanNoTemplateBranch(ls, i, kept) ==
    IF i > Len(ls) THEN kept
    ELSE IF HasLog(ls[i])
         THEN ScanNoTemplateBranch(ls, SpanEnd(ls, i) + 1, kept)
    ELSE ScanNoTemplateBranch(ls, i + 1, Append(kept, ls[i]))

\* ------------------------------------------------------------------------
\* Properties
\* ------------------------------------------------------------------------

\* C1: a text without the substring console.log( is returned exactly as it
\* was: same lines, same order, same characters.
C1_NoLogIsIdentity ==
    (AfterTransform /\ ~HasLog(content)) => cleaned_content = content

C1_Witness ==
    /\ AfterTransform
    /\ ~HasLog(content)
    /\ Len(InputLines) >= 3
    /\ InputLines[Len(InputLines)] = LineBlank
    /\ \E k \in 1..Len(InputLines) : InputLines[k] = LineBlockOpen
    /\ cleaned_content = content

\* C2 (as claimed, for inputs without blank lines): every input line outside
\* the Statement Spans of the input is a line of its own in the output,
\* unchanged and in its original order.
C2_LinesOutsideSpansKept ==
    (/\ AfterTransform
     /\ \A k \in 1..Len(InputLines) : ~IsBlankLine(InputLines[k])) =>
        IsSubSequence(LinesOutsideSpans(InputLines), Split(cleaned_content))

\* C3 (as claimed): the result is that of the line scan run on the original
\* text, as if the regex pass were not there.
C3_RegexPassDiscarded ==
    AfterTransform => cleaned_content = Join(LineScan(InputLines))

\* C3 (amended): the result is that of the line scan run on the original text
\* whenever the simple-statement pattern occurs nowhere in the text.
C3_RegexPassIdleWithoutMatch ==
    (AfterTransform /\ ~PatternOccurs(content)) =>
        cleaned_content = Join(LineScan(InputLines))

C3_Witness ==
    /\ AfterTransform
    /\ ~PatternOccurs(content)
    /\ HasLog(content)
    /\ Len(InputLines) >= 3
    /\ cleaned_content # <<>>
    /\ cleaned_content = Join(LineScan(InputLines))

\* C4: running the transform on its own result changes nothing.
C4_Idempotent ==
    AfterTransform => remove_console_logs(cleaned_content) = cleaned_content

C4_Witness ==
    /\ AfterTransform
    /\ HasLog(content)
    /\ cleaned_content # <<>>
    /\ cleaned_content # content
    /\ remove_console_logs(cleaned_content) = cleaned_content

\* C5: the lines of the output are lines the scan did not classify as starting
\* or continuing a span, and neither a line of the output nor the output text
\* holds the substring console.log(
C5_NoSpanLineInOutput ==
    AfterTransform =>
        /\ IsSubSequence(cleaned_lines, LinesOutsideSpans(ScanLines))
        /\ cleaned_content = Join(cleaned_lines)
        /\ \A k \in 1..Len(Split(cleaned_content)) :
              ~HasLog(Split(cleaned_content)[k])
        /\ ~HasLog(cleaned_content)

C5_Witness ==
    /\ AfterTransform
    /\ \E k \in 1..Len(ScanLines) : InSpan(ScanLines, k)
    /\ \E k \in 1..Len(ScanLines) : ~InSpan(ScanLines, k)
    /\ cleaned_content # <<>>
    /\ ~HasLog(cleaned_content)

\* C6 (as claimed, for inputs without blank lines whose only line that holds
\* console.log( is the first): when that line has more '(' than ')', its span
\* over the input's lines is removed as a whole and exactly the lines outside
\* it are left.
C6_InputSpanRemoved ==
    (/\ AfterTransform
     /\ HasLog(InputLines[1])
     /\ Parens(InputLines[1]) > 0
     /\ \A k \in 2..Len(InputLines) :
           ~HasLog(InputLines[k]) /\ ~IsBlankLine(InputLines[k])) =>
        cleaned_content = Join(LinesOutsideSpans(InputLines))

\* C6 (amended): when a line of the text left by the regex pass holds
\* console.log( with more '(' than ')' and is scanned as a fresh line, its span
\* runs to the first line where the running count is <= 0 (or to the last
\* line), the span is removed as a whole, the line after it is scanned as a
\* fresh line, and exactly the lines outside the spans are left.
C6_ScanSpanRemoved ==
    (/\ AfterTransform
     /\ \E j \in 1..Len(ScanLines) :
           SpanStart(ScanLines, j) /\ Parens(ScanLines[j]) > 0) =>
        cleaned_content = Join(LinesOutsideSpans(ScanLines))

C6_Witness ==
    /\ AfterTransform
    /\ ScanLines = <<LineLogOpen, LineBlockOpen, LineClose, LineBlockClose>>
    /\ SpanEnd(ScanLines, 1) = 3
    /\ cleaned_content = LineBlockClose

\* C7 (as claimed): a backtick-template log line between a block's opening and
\* closing lines is the only line removed; the opening and the closing line are
\* kept as separate, unchanged lines.
C7_TemplateLineAloneRemoved ==
    AfterTransform =>
        \A k \in 2..(Len(InputLines) - 1) :
            (/\ InputLines[k - 1] = LineBlockOpen
             /\ TemplateLogMatch(Strip(InputLines[k]))
             /\ InputLines[k + 1] = LineBlockClose
             /\ \A m \in 1..Len(InputLines) : m # k => ~HasLog(InputLines[m]))
            => cleaned_content = Join(WithoutLine(InputLines, k))

\* C8 (as claimed): when the first line of the input holds console.log( and the
\* running count from it never returns to <= 0, that line and every line after
\* it are deleted, so nothing is left.
C8_InputSwallowedToEnd ==
    (AfterTransform /\ HasLog(InputLines[1]) /\ NeverCloses(InputLines, 1)) =>
        cleaned_content = <<>>

\* C8 (amended): when a line of the text left by the regex pass holds
\* console.log(, is scanned as a fresh line and the running count from it never
\* returns to <= 0, that line and every line after it are deleted; the line
\* console.log("("); followed by a line break is removed by the regex pass on
\* its own, so when it is the first line and no other line holds console.log(,
\* the lines after it are left, less the blank lines right after it.
C8_ScanSwallowedToEnd ==
    AfterTransform =>
        /\ \A j \in 1..Len(ScanLines) :
              (SpanStart(ScanLines, j) /\ NeverCloses(ScanLines, j)) =>
                  cleaned_content =
                      Join(LinesOutsideSpans(SubSeq(ScanLines, 1, j - 1)))
        /\ (/\ Len(InputLines) >= 2
            /\ InputLines[1] = LineLogParen
            /\ \A m \in 2..Len(InputLines) : ~HasLog(InputLines[m])) =>
               cleaned_content = Join(DropLeadingBlank(Tail(InputLines)))

C8_Witness ==
    /\ AfterTransform
    /\ Len(ScanLines) >= 4
    /\ ~HasLog(ScanLines[1])
    /\ SpanStart(ScanLines, 2)
    /\ NeverCloses(ScanLines, 2)
    /\ cleaned_content = ScanLines[1]

\* C9: the file is as it was at the start in every state before the write
\* step begins, also when the read fails; it is written at most once; the
\* confirmation line is printed at most once, only after the write has
\* completed, exactly once when the run is done, and never when the read or
\* the write fails.
C9_DriverOrder ==
    /\ pc \in {"read", "transform", "open_write", "read_failed"} =>
          file = file_at_start /\ writes = 0
    /\ writes <= 1
    /\ Len(stdout) <= 1
    /\ stdout # <<>> =>
          /\ stdout = <<SUCCESS_MESSAGE>>
          /\ pc = "done"
          /\ writes = 1
          /\ file = cleaned_content
    /\ pc = "done" => stdout = <<SUCCESS_MESSAGE>>
    /\ pc \in {"read_failed", "write_failed"} => stdout = <<>>

C9_Witness ==
    /\ pc = "done"
    /\ stdout = <<SUCCESS_MESSAGE>>
    /\ writes = 1
    /\ file = cleaned_content
    /\ file # file_at_start

\* C10: the backtick-template branch is never taken: a line its pattern
\* matches also holds console.log( and is handled by the first branch, so the
\* result is that of the scan without the second branch.
C10_TemplateBranchDead ==
    AfterTransform =>
        /\ \A k \in 1..Len(ScanLines) :
              IsTemplateLog(ScanLines[k]) => StartsStatement(ScanLines[k])
        /\ \A k \in 1..Len(InputLines) :
              IsTemplateLog(InputLines[k]) => StartsStatement(InputLines[k])
        /\ cleaned_content = Join(ScanNoTemplateBranch(ScanLines, 1, <<>>))

C10_Witness ==
    /\ AfterTransform
    /\ Len(ScanLines) >= 2
    /\ IsTemplateLog(ScanLines[Len(ScanLines)])
    /\ StartsStatement(ScanLines[Len(ScanLines)])
    /\ cleaned_content # <<>>

====
